---- MODULE Spec2Model ----
(***************************************************************************)
(* rtlamr2mqtt.py: the listen-only relay (listen_mode), the broker client  *)
(* (MqttSender.publish) and the signal-driven shutdown (shutdown), as one  *)
(* state machine.  The interpreter runs one thread: a signal handler       *)
(* pre-empts the main program and, having no guard, may itself be          *)
(* pre-empted by a further signal, so the handler invocations form a stack *)
(* whose top frame is the only code that runs.                             *)
(***************************************************************************)
EXTENDS Integers, Sequences, FiniteSets, TLC

\* ------------------------------------------------------------------ bounds
MaxLines == 2
MaxSignals == 2

\* --------------------------------------------------------- program constants
GracePeriod == 5

\* ------------------------------------------------------------- decoder lines
\* A line is a sequence of characters.  "sp" is a whitespace character, "x" a
\* character that starts no JSON value, "a" and "b" are the object keys
\* "a": and "b": (string and colon), "1" and "2" are numbers.
Whitespace == {"sp"}
Keys == {"a", "b"}
Digits == {"1", "2"}

\* A blank line, "not json", an object with surrounding whitespace and a
\* repeated key, an object cut short, and a number.
DecoderLines ==
    { <<"sp">>,
      <<"x", "sp", "x">>,
      <<"sp", "{", "b", "sp", "2", ",", "a", "1", ",", "b", "1", "}", "sp">>,
      <<"{", "a", "1">>,
      <<"2">> }

BaseTopics == {"rtlamr", "meters"}

\* lines 115, 121-126: a configuration that names no base topic gets "rtlamr"
DefaultBaseTopic == "rtlamr"
WithDefault(base) == IF base = "None" THEN DefaultBaseTopic ELSE base

\* --------------------------------------------------------------- str.strip()
RECURSIVE lstrip(_)
lstrip(s) ==
    IF s # <<>> /\ Head(s) \in Whitespace THEN lstrip(Tail(s)) ELSE s

RECURSIVE rstrip(_)
rstrip(s) ==
    IF s # <<>> /\ s[Len(s)] \in Whitespace
    THEN rstrip(SubSeq(s, 1, Len(s) - 1))
    ELSE s

strip(s) == rstrip(lstrip(s))

\* --------------------------------------------------------------- json.loads
\* A parsed value: a number, or an object kept as Python keeps a dict: the
\* members in insertion order, a repeated key overwriting the value in place.
JsonError == [ok |-> FALSE, kind |-> "error", num |-> 0, members |-> <<>>]
JsonNumber(n) == [ok |-> TRUE, kind |-> "number", num |-> n, members |-> <<>>]
JsonObject(m) == [ok |-> TRUE, kind |-> "object", num |-> 0, members |-> m]

DigitValue(c) == IF c = "1" THEN 1 ELSE 2

HasKey(m, k) == \E i \in 1..Len(m) : m[i][1] = k

DictSet(m, k, v) ==
    IF HasKey(m, k)
    THEN [i \in 1..Len(m) |-> IF m[i][1] = k THEN <<k, v>> ELSE m[i]]
    ELSE Append(m, <<k, v>>)

\* st: "first" after the opening brace, "key" after a comma, "after" after a
\* member.
RECURSIVE ParseMembers(_, _, _)
ParseMembers(s, m, st) ==
    LET t == lstrip(s) IN
    IF t = <<>> THEN JsonError
    ELSE IF st \in {"first", "key"}
    THEN IF Head(t) = "}" /\ st = "first"
         THEN IF lstrip(Tail(t)) = <<>> THEN JsonObject(m) ELSE JsonError
         ELSE IF Head(t) \in Keys
         THEN LET u == lstrip(Tail(t)) IN
              IF u # <<>> /\ Head(u) \in Digits
              THEN ParseMembers(Tail(u), DictSet(m, Head(t), DigitValue(Head(u))), "after")
              ELSE JsonError
         ELSE JsonError
    ELSE IF Head(t) = ","
         THEN ParseMembers(Tail(t), m, "key")
         ELSE IF Head(t) = "}"
         THEN IF lstrip(Tail(t)) = <<>> THEN JsonObject(m) ELSE JsonError
         ELSE JsonError

loads(s) ==
    LET t == lstrip(s) IN
    IF t = <<>> THEN JsonError
    ELSE IF Head(t) \in Digits
    THEN IF lstrip(Tail(t)) = <<>> THEN JsonNumber(DigitValue(Head(t))) ELSE JsonError
    ELSE IF Head(t) = "{"
    THEN ParseMembers(Tail(t), <<>>, "first")
    ELSE JsonError

\* --------------------------------------------------------------- json.dumps
DigitChar(n) == IF n = 1 THEN "1" ELSE "2"

RECURSIVE DumpMembers(_)
DumpMembers(m) ==
    IF m = <<>> THEN <<>>
    ELSE <<m[1][1], "sp", DigitChar(m[1][2])>>
         \o (IF Len(m) > 1 THEN <<",", "sp">> ELSE <<>>)
         \o DumpMembers(Tail(m))

dumps(v) ==
    IF v.kind = "number" THEN <<DigitChar(v.num)>>
    ELSE <<"{">> \o DumpMembers(v.members) \o <<"}">>

\* Two parsed values are the same JSON: the same number, or objects with the
\* same members whatever their order.
AsMap(v) == {v.members[i] : i \in 1..Len(v.members)}
JsonEquivalent(v, w) ==
    /\ v.ok /\ w.ok
    /\ v.kind = w.kind
    /\ v.num = w.num
    /\ AsMap(v) = AsMap(w)

\* ==================================================================== state
VARIABLES
    running_as_addon,             \* line 36: SUPERVISOR_TOKEN is set
    running_in_listen_only_mode,  \* lines 37, 188
    cfg,                          \* the configuration load_config returned
    mqtt_sender,                  \* line 39: the broker client, or none
    rtltcp_proc,                  \* line 40: never assigned by this program
    rtlamr_proc,                  \* line 41: the decoder's Popen handle
    child,                        \* the decoder as the OS sees it
    mainpc,                       \* where the main program is
    line,                         \* listen_mode's loop variable
    data,                         \* listen_mode's parsed value
    handlers,                     \* the stack of running shutdown() calls
    lines,                        \* history: the raw lines read so far
    pubs,                         \* history: every publish.single call
    log,                          \* history: every logging call
    procLog,                      \* history: terminate, wait and kill calls
    exited,                       \* the process is gone
    exit_code,
    exit_via

vars ==
    << running_as_addon, running_in_listen_only_mode, cfg, mqtt_sender,
       rtltcp_proc, rtlamr_proc, child, mainpc, line, data, handlers, lines,
       pubs, log, procLog, exited, exit_code, exit_via >>

None == "None"
NoSender == [present |-> FALSE, base_topic |-> "", availability_topic |-> ""]
NoConfig == [loaded |-> FALSE, base_topic |-> ""]

ConfigPaths == {"missing", "yaml", "json", "other"}

\* ------------------------------------------------------------------ logging
LogEntry(level, msg) == [level |-> level, msg |-> msg]
Logged(l, level, msg) == Append(l, LogEntry(level, msg))

\* ------------------------------------------------------- MqttSender (46-86)
MqttSender(base) ==
    [present |-> TRUE, base_topic |-> base, availability_topic |-> base \o "/status"]

\* (variant: readings are sent to the status topic)
DebugTopicIsStatus(c) == c.base_topic \o "/status"

DebugTopic(c) == c.base_topic \o "/debug"

\* publish.single is entered: one attempt, in flight until it returns or raises.
\* who is "relay" or "shutdown"; src is the number of the line it carries (0
\* for a status message); frame is the shutdown() call making it (0: the relay).
PublishCall(ps, topic, payload, retain, who, src, frame) ==
    Append(ps, [topic |-> topic, payload |-> payload, retain |-> retain,
                who |-> who, src |-> src, frame |-> frame, result |-> "inflight"])

\* publish.single returned (ok) or raised (not ok); publish returns True or
\* False and raises nothing.
PublishResult(ps, ok) ==
    [ps EXCEPT ![Len(ps)].result = IF ok THEN "ok" ELSE "fail"]

PublishLog(l, p, ok) ==
    IF ok THEN Logged(l, "debug", <<"MQTT published">> \o p.payload)
    ELSE Logged(l, "error", <<"MQTT error">>)

\* --------------------------------------------------------------------- Init
Init ==
    /\ running_as_addon \in BOOLEAN
    /\ running_in_listen_only_mode = FALSE
    /\ cfg = NoConfig
    /\ mqtt_sender = NoSender
    /\ rtltcp_proc = None
    /\ rtlamr_proc = None
    /\ child = "absent"
    /\ mainpc = "load_config"
    /\ line = <<>>
    /\ data = JsonError
    /\ handlers = <<>>
    /\ lines = <<>>
    /\ pubs = <<>>
    /\ log = <<>>
    /\ procLog = <<>>
    /\ exited = FALSE
    /\ exit_code = 0
    /\ exit_via = "none"

\* (variant: the main program goes on while a signal handler runs)
MainRunsUnderHandler == ~exited

\* The main program runs only while no signal handler is running.
MainRuns == ~exited /\ handlers = <<>>

Exit(code, via) ==
    /\ exited' = TRUE
    /\ exit_code' = code
    /\ exit_via' = via

NoExit == UNCHANGED <<exited, exit_code, exit_via>>

\* ------------------------------------------------------ load_config (91-128)
LoadConfig ==
    /\ MainRuns
    /\ mainpc = "load_config"
    /\ \E path \in ConfigPaths, base \in BaseTopics \cup {None} :
        CASE path = "missing" ->
                /\ log' = Logged(log, "error", <<"No config file found. Exiting.">>)
                /\ Exit(1, "load_config")
                /\ UNCHANGED <<cfg, mainpc>>
          [] path = "other" ->
                /\ log' = Logged(Logged(log, "info", <<"Using config">>),
                                 "error", <<"Unsupported config format">>)
                /\ Exit(1, "load_config")
                /\ UNCHANGED <<cfg, mainpc>>
          [] OTHER ->
                /\ log' = Logged(log, "info", <<"Using config">>)
                /\ cfg' = [loaded |-> TRUE, base_topic |-> WithDefault(base)]
                /\ mainpc' = "main"
                /\ NoExit
    /\ UNCHANGED <<running_as_addon, running_in_listen_only_mode, mqtt_sender,
                   rtltcp_proc, rtlamr_proc, child, line, data, handlers,
                   lines, pubs, procLog>>

\* ------------------------------------------------------- __main__ (188-194)
\* Listen mode is on when the configuration says so or when the LISTEN_ONLY
\* environment variable does.
SelectMode ==
    /\ MainRuns
    /\ mainpc = "main"
    /\ \E listen_only \in BOOLEAN, env_listen \in BOOLEAN :
        /\ running_in_listen_only_mode' = (listen_only \/ env_listen)
        /\ mainpc' = IF listen_only \/ env_listen THEN "listen_mode" ELSE "normal"
    /\ UNCHANGED <<running_as_addon, cfg, mqtt_sender, rtltcp_proc, rtlamr_proc,
                   child, line, data, handlers, lines, pubs, log, procLog,
                   exited, exit_code, exit_via>>

\* Normal mode logs and the program runs off its end.
NormalMode ==
    /\ MainRuns
    /\ mainpc = "normal"
    /\ log' = Logged(log, "info", <<"Normal mode is not yet fully implemented">>)
    /\ Exit(0, "end")
    /\ UNCHANGED <<running_as_addon, running_in_listen_only_mode, cfg,
                   mqtt_sender, rtltcp_proc, rtlamr_proc, child, mainpc, line,
                   data, handlers, lines, pubs, procLog>>

\* ------------------------------------------------------ listen_mode (153-176)
\* (variant: the broker client is made whether or not this is an add-on)
SenderAlways(addon, base) == MqttSender(base)

\* line 156
SenderFor(addon, base) == IF addon THEN MqttSender(base) ELSE NoSender

ListenInit ==
    /\ MainRuns
    /\ mainpc = "listen_mode"
    /\ log' = Logged(log, "info", <<"Starting in LISTEN ONLY mode...">>)
    /\ mqtt_sender' = SenderFor(running_as_addon, cfg.base_topic)
    /\ mainpc' = "popen"
    /\ UNCHANGED <<running_as_addon, running_in_listen_only_mode, cfg,
                   rtltcp_proc, rtlamr_proc, child, line, data, handlers,
                   lines, pubs, procLog, exited, exit_code, exit_via>>

\* subprocess.Popen starts the decoder; the handle is not yet assigned.
PopenStarts ==
    /\ MainRuns
    /\ mainpc = "popen"
    /\ child' = "running"
    /\ mainpc' = "assign"
    /\ UNCHANGED <<running_as_addon, running_in_listen_only_mode, cfg,
                   mqtt_sender, rtltcp_proc, rtlamr_proc, line, data, handlers,
                   lines, pubs, log, procLog, exited, exit_code, exit_via>>

\* subprocess.Popen raises (no such binary): nothing catches it.
PopenFails ==
    /\ MainRuns
    /\ mainpc = "popen"
    /\ Exit(1, "popen")
    /\ UNCHANGED <<running_as_addon, running_in_listen_only_mode, cfg,
                   mqtt_sender, rtltcp_proc, rtlamr_proc, child, mainpc, line,
                   data, handlers, lines, pubs, log, procLog>>

AssignProc ==
    /\ MainRuns
    /\ mainpc = "assign"
    /\ rtlamr_proc' = "rtlamr"
    /\ mainpc' = "for"
    /\ UNCHANGED <<running_as_addon, running_in_listen_only_mode, cfg,
                   mqtt_sender, rtltcp_proc, child, line, data, handlers,
                   lines, pubs, log, procLog, exited, exit_code, exit_via>>

\* lines 166-169: the decoder wrote a line; it is stripped, and skipped when
\* nothing is left.
\* (variant: a blank line is not skipped)
AfterStripKeepsBlank(l) == "log"

AfterStrip(l) == IF l = <<>> THEN "for" ELSE "log"

ReadLine ==
    /\ MainRuns
    /\ mainpc = "for"
    /\ child = "running"
    /\ Len(lines) < MaxLines
    /\ \E l \in DecoderLines :
        /\ lines' = Append(lines, l)
        /\ line' = strip(l)
        /\ mainpc' = AfterStrip(strip(l))
    /\ UNCHANGED <<running_as_addon, running_in_listen_only_mode, cfg,
                   mqtt_sender, rtltcp_proc, rtlamr_proc, child, data, handlers,
                   pubs, log, procLog, exited, exit_code, exit_via>>

\* (variant: the decoder is started again when its output ends)
AfterEOFRestarts == "popen"

\* line 166: at end of file the loop is left; nothing follows it
AfterEOF == "eof"

\* The decoder closed its output: the loop ends, listen_mode returns and the
\* program runs off its end.
ReadEOF ==
    /\ MainRuns
    /\ mainpc = "for"
    /\ child = "exited"
    /\ mainpc' = AfterEOF
    /\ IF AfterEOF = "eof" THEN Exit(0, "end") ELSE NoExit
    /\ UNCHANGED <<running_as_addon, running_in_listen_only_mode, cfg,
                   mqtt_sender, rtltcp_proc, rtlamr_proc, child, line, data,
                   handlers, lines, pubs, log, procLog>>

\* line 170
LogLine ==
    /\ MainRuns
    /\ mainpc = "log"
    /\ log' = Logged(log, "info", line)
    /\ mainpc' = "loads"
    /\ UNCHANGED <<running_as_addon, running_in_listen_only_mode, cfg,
                   mqtt_sender, rtltcp_proc, rtlamr_proc, child, line, data,
                   handlers, lines, pubs, procLog, exited, exit_code, exit_via>>

\* line 174: the payload is the parsed value serialised again
RelayPayload(v) == dumps(v)

\* lines 171-173, 175-176: a line that does not parse is passed over; a parsed
\* one is published when there is a broker client
\* (variant: the parse result is not looked at)
ShouldPublishUnparsed(v, sender) == sender.present

ShouldPublish(v, sender) == v.ok /\ sender.present

\* line 174: the loop waits in publish until publish.single has returned
\* (variant: the loop does not wait for publish.single to return)
AfterLoadsAsync(v, sender) == "for"

AfterLoads(v, sender) == IF ShouldPublish(v, sender) THEN "publishing" ELSE "for"

Loads ==
    /\ MainRuns
    /\ mainpc = "loads"
    /\ data' = loads(line)
    /\ mainpc' = AfterLoads(loads(line), mqtt_sender)
    /\ pubs' = IF ShouldPublish(loads(line), mqtt_sender)
               THEN PublishCall(pubs, DebugTopic(cfg), RelayPayload(loads(line)),
                                FALSE, "relay", Len(lines), 0)
               ELSE pubs
    /\ UNCHANGED <<running_as_addon, running_in_listen_only_mode, cfg,
                   mqtt_sender, rtltcp_proc, rtlamr_proc, child, line, handlers,
                   lines, log, procLog, exited, exit_code, exit_via>>

\* line 174: the call returns True or False; the loop goes on either way
\* (variant: a failed publish is tried again)
RetryFailedPublish(ok) == IF ok THEN "for" ELSE "loads"

AfterRelayPublish(ok) == "for"

RelayPublishDone ==
    /\ MainRuns
    /\ mainpc = "publishing"
    /\ \E ok \in BOOLEAN :
        /\ pubs' = PublishResult(pubs, ok)
        /\ log' = PublishLog(log, pubs[Len(pubs)], ok)
        /\ mainpc' = AfterRelayPublish(ok)
    /\ UNCHANGED <<running_as_addon, running_in_listen_only_mode, cfg,
                   mqtt_sender, rtltcp_proc, rtlamr_proc, child, line, data,
                   handlers, lines, procLog, exited, exit_code, exit_via>>

\* --------------------------------------------------------- shutdown (133-148)
\* Both SIGINT and SIGTERM are bound to shutdown (lines 147-148) before the
\* main program starts.  A signal starts a new call of shutdown on top of
\* whatever is running, another call of shutdown included: shutdown has no
\* guard against being entered twice.  A call of shutdown is followed from one
\* call that takes time (wait, publish.single) to the next: those are the
\* places where a further signal finds the program in a different state.
\* (variant: shutdown cannot proceed while the relay is inside publish)
HandlerWaitsForRelay == ~exited /\ handlers # <<>> /\ mainpc # "publishing"

HandlerRuns == ~exited /\ handlers # <<>>
Top == handlers[Len(handlers)]
Depth == Len(handlers)

Frame(pc, i, procs) == [pc |-> pc, i |-> i, procs |-> procs]

SetTop(f) == [handlers EXCEPT ![Len(handlers)] = f]

\* proc.poll() is None: the process has not been seen to exit
PollIsNone(proc, c) == proc # None /\ c \in {"running", "killed"}

\* line 137: a handle that is None or whose process has exited is passed over
\* (variant: the test of poll() is the wrong way round)
NeedsStopInverted(proc, c) == proc # None /\ ~PollIsNone(proc, c)

NeedsStop(proc, c) == PollIsNone(proc, c)

\* (variant: the offline publish is left out)
AfterStopsNoPublish(sender) == "exit"

\* line 143
AfterStops(sender) == IF sender.present THEN "publishing" ELSE "exit"

\* lines 136-137, 143: the loop moves on from position f.i to the next handle
\* to stop; with none left, to the offline publish or to the exit
Advance(f, c) ==
    LET todo == {j \in f.i..Len(f.procs) : NeedsStop(f.procs[j], c)} IN
    IF todo # {}
    THEN [f EXCEPT !.pc = "waiting", !.i = CHOOSE j \in todo : \A k \in todo : j <= k]
    ELSE [f EXCEPT !.pc = AfterStops(mqtt_sender), !.i = Len(f.procs) + 1]

ProcOp(op, proc, frame, timeout) ==
    [op |-> op, proc |-> proc, frame |-> frame, timeout |-> timeout]

\* line 140: the timeout given to wait
WaitTimeout == GracePeriod

\* (variant: the process is killed at once)
KillAtOnce(pl, proc, frame) == Append(pl, ProcOp("kill", proc, frame, 0))

\* lines 138-140: SIGTERM is sent and the wait starts
Terminate(pl, proc, frame) ==
    pl \o << ProcOp("terminate", proc, frame, 0),
             ProcOp("wait", proc, frame, WaitTimeout) >>

\* line 142: SIGKILL is sent
Kill(pl, proc, frame) == Append(pl, ProcOp("kill", proc, frame, 0))

\* (variant: the offline status message is not retained)
OfflinePublishNotRetained(ps, sender, frame) ==
    PublishCall(ps, sender.availability_topic, <<"offline">>, FALSE, "shutdown", 0, frame)

\* line 144: the offline status message
OfflinePublish(ps, sender, frame) ==
    PublishCall(ps, sender.availability_topic, <<"offline">>, TRUE, "shutdown", 0, frame)

\* What the call of shutdown number d does on reaching frame f: lines 138-140
\* for a handle to stop, line 144 for the offline publish.
Reach(f, pl, d) ==
    /\ procLog' = IF f.pc = "waiting" THEN Terminate(pl, f.procs[f.i], d) ELSE pl
    /\ pubs' = IF f.pc = "publishing" THEN OfflinePublish(pubs, mqtt_sender, d) ELSE pubs

\* lines 133-137: the signal arrives and shutdown is called; the list of
\* handles is built once, as the loop starts
Signal ==
    /\ ~exited
    /\ Len(handlers) < MaxSignals
    /\ log' = Logged(log, "info", <<"Shutting down...">>)
    /\ LET f == Advance(Frame("for", 1, <<rtltcp_proc, rtlamr_proc>>), child) IN
        /\ handlers' = Append(handlers, f)
        /\ Reach(f, procLog, Len(handlers) + 1)
    /\ UNCHANGED <<running_as_addon, running_in_listen_only_mode, cfg,
                   mqtt_sender, rtltcp_proc, rtlamr_proc, child, mainpc, line,
                   data, lines, exited, exit_code, exit_via>>

\* line 140: the process exits within the grace period and the wait returns
AfterWaitReturned(f, c) == Advance([f EXCEPT !.i = @ + 1], c)

ShutdownWaitReturns ==
    /\ HandlerRuns
    /\ Top.pc = "waiting"
    /\ child' = "exited"
    /\ LET f == AfterWaitReturned(Top, "exited") IN
        /\ handlers' = SetTop(f)
        /\ Reach(f, procLog, Depth)
    /\ UNCHANGED <<running_as_addon, running_in_listen_only_mode, cfg,
                   mqtt_sender, rtltcp_proc, rtlamr_proc, mainpc, line, data,
                   lines, log, exited, exit_code, exit_via>>

\* lines 141-142: the process ignores SIGTERM, the grace period runs out, wait
\* raises TimeoutExpired and the process is killed; kill does not wait for
\* the process to die
\* (variant: TimeoutExpired is not caught and shutdown is abandoned)
AfterWaitTimeoutRaises(f, c) == [f EXCEPT !.pc = "raised"]

AfterWaitTimeout(f, c) == Advance([f EXCEPT !.i = @ + 1], c)

ShutdownWaitTimesOut ==
    /\ HandlerRuns
    /\ Top.pc = "waiting"
    /\ child = "running"
    /\ child' = "killed"
    /\ LET f == AfterWaitTimeout(Top, "killed") IN
        /\ handlers' = SetTop(f)
        /\ Reach(f, Kill(procLog, Top.procs[Top.i], Depth), Depth)
    /\ UNCHANGED <<running_as_addon, running_in_listen_only_mode, cfg,
                   mqtt_sender, rtltcp_proc, rtlamr_proc, mainpc, line, data,
                   lines, log, exited, exit_code, exit_via>>

\* line 144: the call returns True or False; line 145 follows either way
AfterShutdownPublish(ok) == "exit"

ShutdownPublishDone ==
    /\ HandlerRuns
    /\ Top.pc = "publishing"
    /\ \E ok \in BOOLEAN :
        /\ pubs' = PublishResult(pubs, ok)
        /\ log' = PublishLog(log, pubs[Len(pubs)], ok)
        /\ handlers' = SetTop([Top EXCEPT !.pc = AfterShutdownPublish(ok)])
    /\ UNCHANGED <<running_as_addon, running_in_listen_only_mode, cfg,
                   mqtt_sender, rtltcp_proc, rtlamr_proc, child, mainpc, line,
                   data, lines, procLog, exited, exit_code, exit_via>>

\* line 145: SystemExit unwinds every frame below, the interrupted main
\* program included (no except clause of the program catches it)
ShutdownExit ==
    /\ HandlerRuns
    /\ Top.pc = "exit"
    /\ handlers' = SetTop([Top EXCEPT !.pc = "exited"])
    /\ Exit(0, "shutdown")
    /\ UNCHANGED <<running_as_addon, running_in_listen_only_mode, cfg,
                   mqtt_sender, rtltcp_proc, rtlamr_proc, child, mainpc, line,
                   data, lines, pubs, log, procLog>>

\* ------------------------------------------------------------- the decoder
\* The decoder exits by itself (its output reaches end of file).
DecoderExits ==
    /\ ~exited
    /\ child = "running"
    /\ child' = "exited"
    /\ UNCHANGED <<running_as_addon, running_in_listen_only_mode, cfg,
                   mqtt_sender, rtltcp_proc, rtlamr_proc, mainpc, line, data,
                   handlers, lines, pubs, log, procLog, exited, exit_code,
                   exit_via>>

\* A process that was sent SIGKILL dies.
DecoderDies ==
    /\ ~exited
    /\ child = "killed"
    /\ child' = "exited"
    /\ UNCHANGED <<running_as_addon, running_in_listen_only_mode, cfg,
                   mqtt_sender, rtltcp_proc, rtlamr_proc, mainpc, line, data,
                   handlers, lines, pubs, log, procLog, exited, exit_code,
                   exit_via>>

\* ------------------------------------------------------------ specification
MainStep ==
    \/ LoadConfig
    \/ SelectMode
    \/ NormalMode
    \/ ListenInit
    \/ PopenStarts
    \/ PopenFails
    \/ AssignProc
    \/ ReadLine
    \/ ReadEOF
    \/ LogLine
    \/ Loads
    \/ RelayPublishDone

ShutdownStep ==
    \/ ShutdownWaitReturns
    \/ ShutdownWaitTimesOut
    \/ ShutdownPublishDone
    \/ ShutdownExit

Next ==
    \/ MainStep
    \/ ShutdownStep
    \/ Signal
    \/ DecoderExits
    \/ DecoderDies

Spec == Init /\ [][Next]_vars

\* The interpreter keeps running the shutdown call on top of the stack: every
\* step of it is bounded (the wait by its timeout, the publish by the client).
FairSpec == Spec /\ WF_vars(ShutdownStep)

\* A read of the decoder's output at end of file does not block: the relay
\* waiting in it, with no signal handler on the stack, gets its answer.
FairRelaySpec == Spec /\ WF_vars(ReadEOF)

TypeOK ==
    /\ running_as_addon \in BOOLEAN
    /\ running_in_listen_only_mode \in BOOLEAN
    /\ rtltcp_proc = None
    /\ rtlamr_proc \in {None, "rtlamr"}
    /\ child \in {"absent", "running", "killed", "exited"}
    /\ Len(handlers) <= MaxSignals
    /\ Len(lines) <= MaxLines
    /\ exit_code \in {0, 1}

\* =================================================================== claims
RelayPubs == {i \in DOMAIN pubs : pubs[i].who = "relay"}
RelayPubsOf(n) == {i \in RelayPubs : pubs[i].src = n}

\* An offline status message: "offline" sent to <base_topic>/status.
IsOffline(p) ==
    p.payload = <<"offline">> /\ p.topic = mqtt_sender.base_topic \o "/status"
OfflineAttempts == {i \in DOMAIN pubs : IsOffline(pubs[i])}

IsJsonObject(l) == loads(l).ok /\ loads(l).kind = "object"
IsMalformedOrBlank(l) == strip(l) = <<>> \/ ~loads(l).ok

\* The relay has finished with line n: it is back at the read, or further.
Handled(n) == n < Len(lines) \/ (n = Len(lines) /\ mainpc \in {"for", "eof"})

ProcOps(op, proc) ==
    {i \in DOMAIN procLog : procLog[i].op = op /\ procLog[i].proc = proc}
Handles == {rtltcp_proc, rtlamr_proc} \ {None}

\* ----------------------------------------------------------------------- C1
C1_PerLine ==
    mqtt_sender.present =>
        \A n \in 1..Len(lines) :
            /\ Cardinality(RelayPubsOf(n)) <= 1
            /\ IsMalformedOrBlank(lines[n]) => RelayPubsOf(n) = {}
            /\ (IsJsonObject(lines[n]) /\ Handled(n)) => RelayPubsOf(n) # {}
            /\ \A i \in RelayPubsOf(n) :
                /\ pubs[i].topic = cfg.base_topic \o "/debug"
                /\ JsonEquivalent(loads(pubs[i].payload), loads(lines[n]))

C1_StaysReading ==
    [][ (mainpc \in {"log", "loads", "publishing"} /\ mainpc' # mainpc)
            => (mainpc' \in {"for", "loads", "publishing"} /\ ~exited') ]_vars

\* C1: in listen mode with a broker client, every line that is a JSON object
\* is published exactly once, to <base_topic>/debug, with a payload that is
\* the same JSON as the line; a malformed or blank line is never published;
\* and the work on a line always ends back at the read, the relay alive.
C1_OnePublishPerObjectLine == []C1_PerLine /\ C1_StaysReading

C1_Witness ==
    /\ mqtt_sender.present
    /\ ~exited
    /\ mainpc = "for"
    /\ Len(lines) = 2
    /\ IsJsonObject(lines[1])
    /\ IsMalformedOrBlank(lines[2])
    /\ Cardinality(RelayPubs) = 1

\* ----------------------------------------------------------------------- C2
\* C2: with a broker client, two termination signals, the second arriving
\* before the process has exited, give exactly one offline status publish.
C2_TwoSignalsOneOffline ==
    (exited /\ exit_via = "shutdown" /\ mqtt_sender.present /\ Len(handlers) = 2)
        => Cardinality(OfflineAttempts) = 1

\* ----------------------------------------------------------------------- C3
\* C3: the teardown runs at most once: whatever signals arrive, a managed
\* process is sent at most one terminate request and waited on at most once.
C3_SingleTeardown ==
    \A proc \in Handles :
        /\ Cardinality(ProcOps("terminate", proc)) <= 1
        /\ Cardinality(ProcOps("wait", proc)) <= 1

\* ----------------------------------------------------------------------- C4
\* C4: a process that has constructed a broker client has made exactly one
\* offline status publish attempt by the time it has exited, however it ends.
C4_ExactlyOneOfflinePerLifetime ==
    (exited /\ mqtt_sender.present) => Cardinality(OfflineAttempts) = 1

\* ----------------------------------------------------------------------- C5
\* The stop step of the call of shutdown in frame f is over: the loop is past
\* every handle, and every process it knew has exited or has been killed.
StopStepOver(f) ==
    /\ f.i > Len(f.procs)
    /\ \A j \in 1..Len(f.procs) :
        f.procs[j] # None => child \in {"exited", "killed"}

\* C5: a call of shutdown attempts the offline publish only once its stop
\* step is over for every process it knew, and the process exits through
\* shutdown, with code 0, only after the exiting call's offline publish has
\* returned (sent or failed), or with no broker client at all.
C5_StopThenPublishThenExit ==
    /\ \A i \in OfflineAttempts : StopStepOver(handlers[pubs[i].frame])
    /\ (exited /\ exit_via = "shutdown") =>
        /\ exit_code = 0
        /\ StopStepOver(Top)
        /\ mqtt_sender.present =>
            \E i \in OfflineAttempts :
                pubs[i].frame = Depth /\ pubs[i].result \in {"ok", "fail"}

C5_Witness ==
    /\ exited
    /\ exit_via = "shutdown"
    /\ mqtt_sender.present
    /\ \E i \in DOMAIN procLog : procLog[i].op = "kill"
    /\ \E i \in OfflineAttempts : pubs[i].result = "fail"

\* ----------------------------------------------------------------------- C6
\* The call of shutdown that killed a process went on past it.
WentOnAfterKill ==
    \A k \in DOMAIN procLog :
        procLog[k].op = "kill" =>
            LET f == handlers[procLog[k].frame] IN
            \E j \in 1..Len(f.procs) : j < f.i /\ f.procs[j] = procLog[k].proc

AllUnresponsive ==
    \A w \in DOMAIN procLog :
        procLog[w].op = "wait" =>
            \/ handlers[procLog[w].frame].pc = "waiting"
            \/ \E k \in DOMAIN procLog :
                /\ k > w
                /\ procLog[k].op = "kill"
                /\ procLog[k].frame = procLog[w].frame

\* C7: with N managed processes, all unresponsive, the shutdown makes at most
\* N grace-period waits in total, each with a timeout.
C7_AtMostNWaits ==
    AllUnresponsive =>
        /\ Cardinality({w \in DOMAIN procLog : procLog[w].op = "wait"})
              <= Cardinality(Handles)
        /\ \A w \in DOMAIN procLog :
              procLog[w].op = "wait" => procLog[w].timeout = GracePeriod

\* ----------------------------------------------------------------------- C8
RelayPcs == {"for", "log", "loads", "publishing"}

\* Every call of shutdown works on the process handles the relay set.
ActsOnSharedHandles ==
    \A d \in 1..Len(handlers) : handlers[d].procs = <<rtltcp_proc, rtlamr_proc>>

RelayStandsStill ==
    [][handlers # <<>> => (mainpc' = mainpc /\ lines' = lines)]_vars

\* C8: a signal that arrives with the relay at any place (waiting for a line,
\* between lines, inside a debug publish) runs the teardown on the shared
\* handles and reaches the exit, the relay not moving in the meantime.
C8_TeardownNeedsNoRelay ==
    /\ []ActsOnSharedHandles
    /\ RelayStandsStill
    /\ (handlers # <<>> /\ mainpc \in RelayPcs) ~>
         (exited /\ exit_via = "shutdown" /\ mainpc \in RelayPcs)

C8_Witness ==
    /\ exited
    /\ exit_via = "shutdown"
    /\ mainpc = "publishing"
    /\ \E i \in RelayPubs : pubs[i].result = "inflight"
    /\ ProcOps("terminate", "rtlamr") # {}
    /\ OfflineAttempts # {}

\* ----------------------------------------------------------------------- C9
\* C9: the debug publishes are made in the order the lines were read, each
\* carrying its own line, and one starts only after the one before it has
\* returned: at most one is in flight.
C9_PublishesInReadOrder ==
    /\ \A i, j \in RelayPubs :
         i < j => (pubs[i].src < pubs[j].src /\ pubs[i].result # "inflight")
    /\ \A i \in RelayPubs :
         /\ pubs[i].src \in 1..Len(lines)
         /\ JsonEquivalent(loads(pubs[i].payload), loads(lines[pubs[i].src]))
    /\ Cardinality({i \in RelayPubs : pubs[i].result = "inflight"}) <= 1

C9_Witness ==
    /\ Len(lines) = 2
    /\ Cardinality(RelayPubs) = 2
    /\ \A i \in RelayPubs : pubs[i].result # "inflight"
    /\ mainpc = "for"

\* ---------------------------------------------------------------------- C10
\* C10: a publish that fails is a value returned, not an error raised: the
\* relay is back at the read after it and still alive, no line is published
\* twice, and a shutdown whose offline publish failed goes on to the exit.
C10_FailedPublishIsDropped ==
    /\ \A i \in RelayPubs :
         pubs[i].result = "fail" =>
            /\ pubs[i].src = Len(lines) => mainpc \in {"for", "eof"}
            /\ exited => exit_via \in {"shutdown", "end"}
    /\ \A n \in 1..Len(lines) : Cardinality(RelayPubsOf(n)) <= 1
    /\ \A i \in OfflineAttempts :
         pubs[i].result = "fail" => handlers[pubs[i].frame].pc \in {"exit", "exited"}

C10_Witness ==
    /\ Len(lines) = 2
    /\ \E i \in RelayPubsOf(1) : pubs[i].result = "fail"
    /\ RelayPubsOf(2) # {}
    /\ exited
    /\ exit_via = "shutdown"
    /\ \E i \in OfflineAttempts : pubs[i].result = "fail"

\* ---------------------------------------------------------------------- C11
\* The calls a step adds to the record of calls on processes.
NewProcOps == SubSeq(procLog', Len(procLog) + 1, Len(procLog'))

C11_Recorded ==
    \A i \in DOMAIN procLog :
        /\ procLog[i].proc # None
        /\ procLog[i].op = "terminate" =>
              /\ i < Len(procLog)
              /\ procLog[i + 1].op = "wait"
              /\ procLog[i + 1].proc = procLog[i].proc
              /\ procLog[i + 1].frame = procLog[i].frame
              /\ procLog[i + 1].timeout = GracePeriod
        /\ procLog[i].op = "wait" =>
              /\ i > 1
              /\ procLog[i - 1].op = "terminate"
        /\ procLog[i].op = "kill" =>
              /\ i > 1
              /\ procLog[i - 1].op = "wait"
              /\ procLog[i - 1].proc = procLog[i].proc
              /\ procLog[i - 1].frame = procLog[i].frame

C11_Step ==
    \A k \in DOMAIN NewProcOps :
        /\ NewProcOps[k].op = "terminate" =>
              child \in {"running", "killed"}
        /\ NewProcOps[k].op = "kill" =>
              /\ k = 1
              /\ child = "running"
              /\ handlers # <<>>
              /\ Top.pc = "waiting"

C11_NoOp == child \in {"absent", "exited"} => UNCHANGED procLog

\* C11: a process is stopped by terminate, then a wait of at most the grace
\* period by the same call, and kill follows only that wait and only when the
\* process is still running as the wait ends; a handle that is None or whose
\* process has exited or was never started gets no terminate and no kill.
C11_EscalationProtocol ==
    /\ []C11_Recorded
    /\ [][C11_Step]_vars
    /\ [][C11_NoOp]_vars
    /\ [](child = "absent" \/ rtlamr_proc = None => procLog = <<>>)

C11_Witness ==
    /\ Len(procLog) = 3
    /\ procLog[1].op = "terminate"
    /\ procLog[2].op = "wait"
    /\ procLog[3].op = "kill"
    /\ child = "killed"

\* ---------------------------------------------------------------------- C12
\* A signal was received and no process was ever started.
NothingStarted == handlers # <<>> /\ child = "absent"

\* C12 as stated: a shutdown that found no process started has skipped the
\* stop step, has attempted the offline publish and has exited with code 0.
C12_AlwaysAttemptsOffline ==
    (NothingStarted /\ exited) =>
        /\ procLog = <<>>
        /\ OfflineAttempts # {}
        /\ exit_code = 0

\* C12: a shutdown that finds no process started skips the stop step (it
\* sends nothing and waits for nothing), attempts the offline publish when a
\* broker client has been constructed and makes no publish when none has,
\* and exits with code 0.
C12_NothingToStop ==
    NothingStarted =>
        /\ procLog = <<>>
        /\ \A d \in DOMAIN handlers :
              /\ handlers[d].pc \in {"publishing", "exit", "exited"}
              /\ mqtt_sender.present =>
                    \E i \in OfflineAttempts : pubs[i].frame = d
              /\ ~mqtt_sender.present => pubs = <<>>
        /\ exited => exit_code = 0 /\ exit_via = "shutdown"

C12_Witness ==
    /\ NothingStarted
    /\ exited
    /\ exit_code = 0
    /\ mqtt_sender.present
    /\ rtlamr_proc = None
    /\ \E i \in OfflineAttempts : pubs[i].result = "ok"

\* ---------------------------------------------------------------------- C13
\* The relay has returned at end of file: listen_mode returned to the main
\* program, which ended with code 0, and the decoder is an exited process.
C13_AtEOF ==
    mainpc = "eof" =>
        /\ exited
        /\ exit_code = 0
        /\ exit_via = "end"
        /\ child = "exited"
        /\ handlers = <<>>

\* A decoder process is started only when none was started before.
C13_StartedOnce == child' = "running" /\ child # "running" => child = "absent"

StatusPubs == {i \in DOMAIN pubs : pubs[i].topic = mqtt_sender.availability_topic}
LastStatusIs(payload) ==
    /\ StatusPubs # {}
    /\ LET last == CHOOSE i \in StatusPubs : \A j \in StatusPubs : j <= i IN
          /\ pubs[last].payload = payload
          /\ pubs[last].retain

\* The relay is reading the decoder's output and has a broker client.
ReadingWithClient ==
    /\ mqtt_sender.present
    /\ rtlamr_proc # None
    /\ mainpc \in RelayPcs
    /\ handlers = <<>>
    /\ ~exited

\* C14: while the relay is reading with a broker client, the latest publish
\* to <base_topic>/status is a retained "online"; after a shutdown by signal
\* it is a retained "offline".
C14_StatusTracksRelay ==
    /\ ReadingWithClient => LastStatusIs(<<"online">>)
    /\ (exited /\ exit_via = "shutdown" /\ mqtt_sender.present) =>
          LastStatusIs(<<"offline">>)

\* ---------------------------------------------------------------------- C15
\* C15: every publish goes to <base_topic>/status or <base_topic>/debug, the
\* base topic being the configured one or "rtlamr" when none is configured;
\* a publish to the status topic is retained and says "online" or "offline",
\* a publish to the debug topic is not retained.
C15_TopicsAndRetain ==
    /\ cfg.loaded => cfg.base_topic \in BaseTopics
    /\ \A i \in DOMAIN pubs :
          /\ pubs[i].topic \in {cfg.base_topic \o "/status", cfg.base_topic \o "/debug"}
          /\ pubs[i].topic = cfg.base_topic \o "/status" =>
                /\ pubs[i].retain
                /\ pubs[i].payload \in {<<"online">>, <<"offline">>}
          /\ pubs[i].topic = cfg.base_topic \o "/debug" => ~pubs[i].retain

C15_Witness ==
    /\ cfg.base_topic = "meters"
    /\ \E i, j \in DOMAIN pubs :
          /\ pubs[i].topic = "meters/debug"
          /\ pubs[j].topic = "meters/status"
          /\ pubs[j].result = "ok"

\* ---------------------------------------------------------------------- C16
\* The program ended on a failure to start: no configuration file, an
\* unsupported configuration format, or a decoder that cannot be launched.
StartupFailure == exited /\ exit_via \in {"load_config", "popen"}

\* C16: a shutdown by signal ends the program with code 0; a failure to start
\* ends it with a code other than 0, the failure being the last thing logged,
\* at error severity, and nothing having been retried.
C16_ExitCodes ==
    /\ (exited /\ exit_via = "shutdown") => exit_code = 0
    /\ StartupFailure =>
          /\ exit_code # 0
          /\ log # <<>>
          /\ log[Len(log)].level = "error"
          /\ Cardinality({i \in DOMAIN log : log[i].level = "error"}) = 1

\* ---------------------------------------------------------------------- C17
\* The messages the program logs on its own account; every other entry at
\* info level is a line of the decoder.
OwnMessages ==
    { <<"Using config">>, <<"Starting in LISTEN ONLY mode...">>,
      <<"Normal mode is not yet fully implemented">>, <<"Shutting down...">> }
IsLineLog(e) == e.level = "info" /\ e.msg \notin OwnMessages
IsPublishLog(e) == e.level \in {"debug", "error"}
LineLog == SelectSeq(log, IsLineLog)

\* The lines the relay has got past the logging call for.
PastLogging == IF mainpc = "log" THEN Len(lines) - 1 ELSE Len(lines)

RECURSIVE LinesToLog(_)
LinesToLog(n) ==
    IF n = 0 THEN <<>>
    ELSE IF strip(lines[n]) = <<>> THEN LinesToLog(n - 1)
    ELSE Append(LinesToLog(n - 1), LogEntry("info", strip(lines[n])))

\* C17: the log holds, in the order read, one entry for each line that is
\* not empty once stripped, made before the line is parsed and whether or
\* not it parses, and none for an empty one; beyond these the relay logs
\* only the outcome of a publish, so a line that does not parse adds no
\* entry, is not published and leaves the relay reading.
C17_LoggedOncePerLine ==
    mainpc \in RelayPcs \cup {"eof"} =>
        /\ LineLog = LinesToLog(PastLogging)
        /\ mainpc \in {"loads", "publishing"} =>
              LineLog[Len(LineLog)].msg = strip(lines[Len(lines)])
        /\ Len(SelectSeq(log, IsPublishLog))
              = Cardinality({i \in DOMAIN pubs : pubs[i].result # "inflight"})
        /\ \A n \in 1..Len(lines) :
              ~loads(strip(lines[n])).ok =>
                 /\ RelayPubsOf(n) = {}
                 /\ exited => exit_via \in {"end", "shutdown"}
        /\ mainpc = "publishing" => data.ok

C17_Witness ==
    /\ Len(lines) = 2
    /\ lines[1] = <<"x", "sp", "x">>
    /\ IsJsonObject(lines[2])
    /\ Len(LineLog) = 2
    /\ Len(log) = 4
    /\ RelayPubsOf(1) = {}
    /\ RelayPubsOf(2) # {}
    /\ mainpc = "publishing"
    /\ handlers = <<>>

\* ---------------------------------------------------------------------- C18
\* Every publish of the relay comes before every offline publish, and once
\* there is an offline publish the latest publish is one.
C18_OfflineComesLast ==
    /\ \A i \in RelayPubs : \A j \in OfflineAttempts : i < j
    /\ OfflineAttempts # {} => IsOffline(pubs[Len(pubs)])

\* With an offline publish started, a step reads no line and neither starts
\* nor completes a publish of the relay.
C18_RelayIsStopped ==
    OfflineAttempts # {} =>
        /\ lines' = lines
        /\ mainpc' = mainpc
        /\ {i \in DOMAIN pubs' : pubs'[i].who = "relay"} = RelayPubs
        /\ \A i \in RelayPubs : pubs'[i] = pubs[i]

\* C18: once a shutdown has started its offline publish the relay reads no
\* further line and starts no further publish, so the offline message is the
\* last one published, also when the signal came in the middle of a publish
\* of the relay.
C18_NothingAfterOffline == []C18_OfflineComesLast /\ [][C18_RelayIsStopped]_vars

C18_Witness ==
    /\ exited
    /\ exit_via = "shutdown"
    /\ mainpc = "publishing"
    /\ \E i \in RelayPubs : \E j \in OfflineAttempts :
          /\ pubs[i].result = "inflight"
          /\ pubs[j].result = "ok"
          /\ j = Len(pubs)

\* ---------------------------------------------------------------------- C19
\* The run ended with no signal received: listen_mode returned at end of
\* file, or the program ran through normal mode.
EndedWithoutSignal == exited /\ exit_via = "end" /\ handlers = <<>>

\* C19: an offline publish is made only by a call of shutdown, which only a
\* signal starts; a run that ends with no signal, at end of file or in normal
\* mode, exits with code 0, has published nothing to the status topic and
\* has sent no terminate or kill.
C19_OfflineOnlyOnSignal ==
    /\ \A i \in OfflineAttempts :
          /\ pubs[i].who = "shutdown"
          /\ pubs[i].frame \in DOMAIN handlers
    /\ handlers = <<>> => StatusPubs = {} /\ procLog = <<>>
    /\ (exited /\ exit_via = "end") => handlers = <<>>
    /\ EndedWithoutSignal =>
          /\ exit_code = 0
          /\ mainpc \in {"eof", "normal"}
          /\ \A i \in DOMAIN pubs : pubs[i].topic = cfg.base_topic \o "/debug"

C19_Witness ==
    /\ EndedWithoutSignal
    /\ mainpc = "eof"
    /\ mqtt_sender.present
    /\ RelayPubs # {}
    /\ StatusPubs = {}

\* ---------------------------------------------------------------------- C20
\* The main program has entered listen_mode and passed the construction of
\* the broker client.
PastListenInit == mainpc \notin {"load_config", "main", "listen_mode", "normal"}

\* C20: a broker client exists only in an add-on that is in listen-only mode
\* and has entered listen_mode; without a client nothing at all is published:
\* a line that parses is logged and no more, and a shutdown by signal exits
\* with code 0 and no offline publish.
C20_NoClientNoPublish ==
    /\ mqtt_sender.present =>
          /\ running_as_addon
          /\ running_in_listen_only_mode
          /\ PastListenInit
    /\ (running_as_addon /\ PastListenInit) => mqtt_sender.present
    /\ ~mqtt_sender.present =>
          /\ pubs = <<>>
          /\ mainpc # "publishing"
          /\ \A d \in DOMAIN handlers : handlers[d].pc # "publishing"
    /\ (exited /\ exit_via = "shutdown") => exit_code = 0

C20_Witness ==
    /\ ~running_as_addon
    /\ ~mqtt_sender.present
    /\ data.ok
    /\ Len(LineLog) = 1
    /\ LineLog[1].msg = strip(lines[1])
    /\ rtlamr_proc # None
    /\ exited
    /\ exit_via = "shutdown"
    /\ exit_code = 0
    /\ pubs = <<>>

====
